---- MODULE Spec2Model ----
(***************************************************************************)
(* gowget: concurrent HTTP downloader with a per-file percentage table.    *)
(* The model follows src/main.go: the control thread running              *)
(* Downloader.Download, one worker per deduplicated URL running            *)
(* Downloader.downloadUrl, the percentage map behind its RWMutex, the      *)
(* completion channels, the working directory and the two output sinks.    *)
(*                                                                         *)
(* Representation.  A string is a sequence of one-character strings.  A    *)
(* file's content is a sequence of runs [src, off, len]: len bytes taken   *)
(* from position off of the byte stream named src; Bytes() is its          *)
(* canonical form, so two contents hold the same bytes in the same order   *)
(* iff their Bytes() are equal.                                            *)
(***************************************************************************)
EXTENDS Integers, Sequences, FiniteSets, TLC

\* ------------------------------------------------------------------ bounds
\* largest declared content length / stream length of the small transports
MaxLen == 1
\* the large transports declare and deliver 0..MaxExtra bytes, or that many
\* more than initialChunkSize
MaxExtra == 2
\* largest throughput (bytes per second) a pacing measurement yields
MaxRate == 4

\* ------------------------------------------------------- program constants
initialChunkSize == 10 * 1024
chunksPerSecond == 2
filenameSubstitution == "_"
defaultFilename == <<"i", "n", "d", "e", "x", ".", "h", "t", "m", "l">>

\* ------------------------------------------------------------------ helpers
Min(a, b) == IF a < b THEN a ELSE b

Range(s) == {s[i] : i \in 1..Len(s)}

\* f with key k set to v (a Go map assignment m[k] = v)
Put(f, k, v) == [x \in (DOMAIN f) \cup {k} |-> IF x = k THEN v ELSE f[x]]

\* the empty Go map
EmptyMap == [x \in {} |-> 0]

\* ------------------------------------------------------- file contents
\* content c followed by the run r, in canonical form: an empty run adds
\* nothing, a run that continues the last one extends it
AppendRun(c, r) ==
    IF r.len = 0 THEN c
    ELSE IF /\ Len(c) > 0
            /\ c[Len(c)].src = r.src
            /\ c[Len(c)].off + c[Len(c)].len = r.off
         THEN [c EXCEPT ![Len(c)].len = @ + r.len]
         ELSE Append(c, r)

\* the bytes of a content, as canonical runs
RECURSIVE Bytes(_)
Bytes(c) ==
    IF c = <<>> THEN <<>>
    ELSE AppendRun(Bytes(SubSeq(c, 1, Len(c) - 1)), c[Len(c)])

\* the first n bytes a transport delivers for url
SourceBytes(url, n) == Bytes(<<[src |-> url, off |-> 0, len |-> n]>>)

\* ------------------------------------------------------- FilenameResolver
\* the letters the inputs are written with: ASCII ones and one that is not
AsciiLetters ==
    {"a", "b", "c", "d", "e", "f", "g", "h", "i", "j", "k", "l", "m",
     "n", "o", "p", "q", "r", "s", "t", "u", "v", "w", "x", "y", "z"}
\* \pL
Letters == AsciiLetters \cup {"é"}
Digits == {"0", "1", "2", "3", "4", "5", "6", "7", "8", "9"}
\* \w of the URL regexp (ASCII only)
WordChars == AsciiLetters \cup Digits \cup {"_"}
DigitChar == <<"0", "1", "2", "3", "4", "5", "6", "7", "8", "9">>

\* strconv.Itoa / fmt %d of a non-negative integer
RECURSIVE Itoa(_)
Itoa(n) ==
    IF n < 10 THEN <<DigitChar[n + 1]>>
    ELSE Itoa(n \div 10) \o <<DigitChar[(n % 10) + 1]>>

\* end of the \w+ run that starts at i, or 0 when url[i] is no word character
RECURSIVE WordRunEnd(_, _)
WordRunEnd(url, i) ==
    IF i > Len(url) \/ url[i] \notin WordChars THEN i - 1
    ELSE WordRunEnd(url, i + 1)

\* the regexp \w+://[^/]+(?:/([^/]*))* matches url starting at position i
MatchesAt(url, i) ==
    LET m == WordRunEnd(url, i)
    IN  /\ m >= i
        /\ m + 4 <= Len(url)
        /\ url[m + 1] = ":"
        /\ url[m + 2] = "/"
        /\ url[m + 3] = "/"
        /\ url[m + 4] # "/"

\* matches[1] of FindStringSubmatch: the last path segment of the leftmost
\* match, "" when the regexp does not match or the group never took part
LastSegment(url) ==
    LET starts == {i \in 1..Len(url) : MatchesAt(url, i)}
    IN  IF starts = {} THEN <<>>
        ELSE LET i0 == CHOOSE i \in starts : \A k \in starts : i <= k
                 host == WordRunEnd(url, i0) + 4
                 slashes == {p \in host..Len(url) : url[p] = "/"}
             IN  IF slashes = {} THEN <<>>
                 ELSE LET last == CHOOSE p \in slashes : \A q \in slashes : q <= p
                      IN  SubSeq(url, last + 1, Len(url))

\* a replacement that keeps the word characters only
SanitizeWord(name) ==
    [i \in 1..Len(name) |->
        IF name[i] \in WordChars THEN name[i] ELSE filenameSubstitution]

\* re.ReplaceAllLiteralString of [^\pL\-.0-9] by filenameSubstitution
Sanitize(name) ==
    [i \in 1..Len(name) |->
        IF name[i] \in Letters \cup Digits \cup {"-", "."}
        THEN name[i] ELSE filenameSubstitution]

getFilename(url) ==
    LET seg == LastSegment(url)
    IN  Sanitize(IF seg # <<>> /\ seg # <<".", ".">> /\ seg # <<".">>
                 THEN seg ELSE defaultFilename)

\* a probing loop that tries the postfix before the one it is given first
RECURSIVE ProbeFromZero(_, _, _)
ProbeFromZero(filename, postfix, existing) ==
    LET candidate == filename \o <<".">> \o Itoa(postfix - 1)
    IN  IF candidate \notin existing THEN candidate
        ELSE ProbeFromZero(filename, postfix + 1, existing)

\* the probing loop of getUniqueFilename from postfix on, against the set
\* of existing paths
RECURSIVE ProbeFrom(_, _, _)
ProbeFrom(filename, postfix, existing) ==
    LET candidate == filename \o <<".">> \o Itoa(postfix)
    IN  IF candidate \notin existing THEN candidate
        ELSE ProbeFrom(filename, postfix + 1, existing)

getUniqueFilename(filename, existing) ==
    IF filename \notin existing THEN filename
    ELSE ProbeFrom(filename, 1, existing)

\* ------------------------------------------------------------------ inputs
u1 == <<"h", ":", "/", "/", "a", "/", "x">>
u2 == <<"h", ":", "/", "/", "b", "/", "x">>
UrlSet == {u1, u2}

\* the URL lists handed to Download: none, one, repeated and distinct URLs
UrlLists == {<<>>, <<u1>>, <<u1, u1>>, <<u1, u2>>, <<u2, u1, u2>>}

\* what was in a file that is in the working directory before Download
OldContent == <<[src |-> <<"o", "l", "d">>, off |-> 0, len |-> 1]>>

\* working directories Download may start in: none, or some, of the names
\* the jobs resolve to are taken
InitialDirs ==
    LET x == getFilename(u1)
    IN  {[p \in ps |-> OldContent] : ps \in {{}, {x}, {x, x \o <<".", "1">>}}}

\* the working directory with nothing in it
EmptyDir == [p \in {} |-> OldContent]

\* a transport's answer to Get: an error, or a declared content length and
\* the number of bytes the body delivers before its terminal read outcome
Response(e, c, n) == [err |-> e, contentLen |-> c, dataLen |-> n]

SmallLens == 0..MaxLen
LargeLens == (0..MaxExtra) \cup {initialChunkSize + e : e \in 0..MaxExtra}

SmallResponses ==
    {Response(TRUE, 0, 0)} \cup {Response(FALSE, c, n) : c \in SmallLens, n \in SmallLens}
LargeResponses ==
    {Response(TRUE, 0, 0)} \cup {Response(FALSE, c, n) : c \in LargeLens, n \in LargeLens}

\* ------------------------------------------------------- inputs for names
\* scheme and host of the URLs below
SchemeHost == <<"h", ":", "/", "/", "a">>

\* the URL with the given path, query included
UrlOf(path) == SchemeHost \o path

\* URLs after the cases of TestGetFilename: no scheme, no path, an empty
\* last segment, characters to replace, a letter that is not ASCII, dot
\* segments before and at the end
urlNoScheme == <<"a", ".", "c">>
urlNoPath == SchemeHost
urlSlash == UrlOf(<<"/">>)
urlQuery == UrlOf(<<"/", "?", "t", "=", "%", "g", "*">>)
urlLetter == UrlOf(<<"/", "é">>)
urlDotsThenName == UrlOf(<<"/", ".", "/", "f", "/", ".", ".", "/", "t", ".", "m">>)
urlDotsAtEnd == UrlOf(<<"/", ".", "/", "f", "/", ".", ".", "/", ".", ".">>)
\* further shapes: a single dot, three dots, an empty host, a scheme that
\* is no word, text before the scheme, a second URL inside the query, a
\* hyphen and a digit, a blank, a segment that ends in a slash
urlDot == UrlOf(<<"/", ".">>)
urlThreeDots == UrlOf(<<"/", ".", ".", ".">>)
urlNoHost == <<"h", ":", "/", "/", "/", "x">>
urlLetterScheme == <<"é", ":", "/", "/", "a", "/", "x">>
urlPrefixed == <<"-", "h", ":", "/", "/", "a", "/", "x">>
urlNested == UrlOf(<<"/", "x", "?", "u", "=", "h", ":", "/", "/", "b", "/", "y">>)
urlHyphen == UrlOf(<<"/", "x", "-", "1">>)
urlBlank == UrlOf(<<"/", "a", " ", "b">>)
urlTrailing == UrlOf(<<"/", "x", "/">>)
\* URLs after the cases of TestInitializeStatusTable, and names of 4 and 5
\* characters
urlZero == UrlOf(<<"/", "0">>)
urlZeros == UrlOf(<<"/", "0", "0", "0">>)
urlOutput == UrlOf(<<"/", "o", "u", "t", "p", "u", "t", ".", "d", "a", "t">>)
urlFour == UrlOf(<<"/", "a", "b", "c", "d">>)
urlFive == UrlOf(<<"/", "t", ".", "h", "t", "m">>)
\* URLs for the names of TestGetUniqueFilename ("e" for "existing")
urlE == UrlOf(<<"/", "e">>)
urlE_ == UrlOf(<<"/", "e", "_">>)

NameUrls ==
    {urlNoScheme, urlNoPath, urlSlash, urlQuery, urlLetter, urlDotsThenName,
     urlDotsAtEnd, urlDot, urlThreeDots, urlNoHost, urlLetterScheme,
     urlPrefixed, urlNested, urlHyphen, urlBlank, urlTrailing, urlZero,
     urlZeros, urlOutput, urlFour, urlFive, urlE, urlE_, u1}

\* the URL lists the names are derived from: each URL alone, and one list
\* of two
NameLists == {<<u>> : u \in NameUrls} \cup {<<urlZero, urlOutput>>}

\* a working directory that holds the given paths
DirOf(paths) == [p \in paths |-> OldContent]

\* the directory of TestGetUniqueFilename
TestDir == DirOf({<<"e">>, <<"e", "_">>, <<"e", "_", ".", "1">>})

\* directories for http://a/x: x free although x.1 is taken, x taken, x and
\* x.1 taken, a gap at x.1, and x.1 to x.9 taken
NameDirs ==
    LET x == <<"x">>
        xn(n) == x \o <<".">> \o Itoa(n)
    IN  {DirOf({xn(1)}), DirOf({x}), DirOf({x, xn(1)}), DirOf({x, xn(2)}),
         DirOf({x} \cup {xn(n) : n \in 1..9})}

\* ------------------------------------------------------------------- state
VARIABLES
    urls,                 \* the argument of Download
    uniqUrls,             \* the deduplicated job list
    pcCtl,                \* where the control thread is in Download
    idx,                  \* index of the channel the polling loop is at
    finishedDownloads,
    isFinishedChannels,   \* per job, the buffer of its chan bool (capacity 1)
    downloadPercentages,  \* d.downloadPercentages
    rlocked,              \* percentageMutex is read-locked by the control thread
    percentages,          \* the copy GetDownloadPercentages is building
    statusTableRowFormat, \* per column, the width of its %<width>d field
    stdoutHeader,         \* the header cells printed by initializeStatusTable
    lastRow,              \* the arguments of the last status row printed
    stderr,               \* the lines written with ErrPrintf
    files,                \* the working directory: path -> content
    jobs                  \* per job, the locals of its downloadUrl goroutine

vars == <<urls, uniqUrls, pcCtl, idx, finishedDownloads, isFinishedChannels,
          downloadPercentages, rlocked, percentages, statusTableRowFormat,
          stdoutHeader, lastRow, stderr, files, jobs>>

ctlVars == <<urls, uniqUrls, pcCtl, idx, finishedDownloads, percentages,
             statusTableRowFormat, stdoutHeader, lastRow>>

NumJobs == Len(uniqUrls)

\* a deduplication that keeps the last occurrence of each URL
RECURSIVE DedupLast(_)
DedupLast(us) ==
    IF us = <<>> THEN <<>>
    ELSE IF us[1] \in Range(Tail(us)) THEN DedupLast(Tail(us))
         ELSE <<us[1]>> \o DedupLast(Tail(us))

\* the uniqUrls loop of Download: first occurrences, in order
RECURSIVE Dedup(_)
Dedup(us) ==
    IF us = <<>> THEN <<>>
    ELSE LET front == Dedup(SubSeq(us, 1, Len(us) - 1))
             url == us[Len(us)]
         IN  IF url \in Range(front) THEN front ELSE Append(front, url)

\* fmt's padding to a minimum width: s right-justified in width w, counted
\* in code points, and s itself when it is longer
PadLeft(s, w) ==
    IF Len(s) >= w THEN s ELSE [i \in 1..(w - Len(s)) |-> " "] \o s

\* what Printf writes for one "%4s " of the header format
HeaderCell(filename) == PadLeft(filename, 4) \o <<" ">>

\* what Printf writes for one "%<width>d%% " of the row format
RowCell(width, percentage) == PadLeft(Itoa(percentage), width) \o <<"%", " ">>

\* a width modifier as wide as the filename
ColumnWidthFull(filename) == IF Len(filename) > 4 THEN Len(filename) ELSE 3

\* the width modifier initializeStatusTable computes for a filename
ColumnWidth(filename) == IF Len(filename) > 4 THEN Len(filename) - 1 ELSE 3

\* the locals of a downloadUrl goroutine that has not run yet
NewJob(url) ==
    [pc |-> "register", url |-> url, filename |-> <<>>, tmpfile |-> <<>>,
     contentLen |-> 0, body |-> [pos |-> 0, len |-> 0], chunkLen |-> 0,
     totalCopied |-> 0, lastCopied |-> 0, writeFailed |-> FALSE, sent |-> <<>>]

InitWith(lists, dirs) ==
    /\ urls \in lists
    /\ files \in dirs
    /\ uniqUrls = <<>>
    /\ pcCtl = "start"
    /\ idx = 0
    /\ finishedDownloads = 0
    /\ isFinishedChannels = <<>>
    /\ downloadPercentages = EmptyMap
    /\ rlocked = FALSE
    /\ percentages = EmptyMap
    /\ statusTableRowFormat = <<>>
    /\ stdoutHeader = <<>>
    /\ lastRow = <<>>
    /\ stderr = <<>>
    /\ jobs = <<>>

Init == InitWith(UrlLists, {EmptyDir})

\* ------------------------------------------------------- ProgressRegistry
\* a set that does not take the mutex
addUnlocked(url, percentage) ==
    downloadPercentages' = Put(downloadPercentages, url, percentage)

\* addDownloadPercentage: Lock() waits while the reader holds the mutex
addDownloadPercentage(url, percentage) ==
    /\ ~rlocked
    /\ downloadPercentages' = Put(downloadPercentages, url, percentage)

\* ------------------------------------------------------- control thread
\* Download up to the polling loop: reset the registry, deduplicate, print
\* the header, make the channels and launch the workers
Start ==
    /\ pcCtl = "start"
    /\ LET uniq == Dedup(urls)
           filenames == [i \in 1..Len(uniq) |->
                            getUniqueFilename(getFilename(uniq[i]), DOMAIN files)]
       IN  /\ uniqUrls' = uniq
           /\ statusTableRowFormat' = [i \in 1..Len(uniq) |-> ColumnWidth(filenames[i])]
           /\ stdoutHeader' = filenames
           /\ isFinishedChannels' = [i \in 1..Len(uniq) |-> <<>>]
           /\ jobs' = [i \in 1..Len(uniq) |-> NewJob(uniq[i])]
    /\ downloadPercentages' = EmptyMap
    /\ rlocked' = FALSE
    /\ finishedDownloads' = 0
    /\ pcCtl' = "loop"
    /\ UNCHANGED <<urls, idx, percentages, lastRow, stderr, files>>

\* the loop condition holds: sleep one tick, then poll from the first channel
Sleep ==
    /\ pcCtl = "loop"
    /\ finishedDownloads < NumJobs
    /\ pcCtl' = "poll"
    /\ idx' = 1
    /\ UNCHANGED <<urls, uniqUrls, finishedDownloads, isFinishedChannels,
                   downloadPercentages, rlocked, percentages, statusTableRowFormat,
                   stdoutHeader, lastRow, stderr, files, jobs>>

\* the loop condition fails: Download returns
Return ==
    /\ pcCtl = "loop"
    /\ ~(finishedDownloads < NumJobs)
    /\ pcCtl' = "returned"
    /\ UNCHANGED <<urls, uniqUrls, idx, finishedDownloads, isFinishedChannels,
                   downloadPercentages, rlocked, percentages, statusTableRowFormat,
                   stdoutHeader, lastRow, stderr, files, jobs>>

\* a poll that counts a buffered value without receiving it
PollPeek ==
    /\ pcCtl = "poll"
    /\ IF isFinishedChannels[idx] # <<>>
       THEN finishedDownloads' = finishedDownloads + 1
       ELSE UNCHANGED finishedDownloads
    /\ IF idx < NumJobs
       THEN idx' = idx + 1 /\ pcCtl' = "poll"
       ELSE idx' = 0 /\ pcCtl' = "snapshot"
    /\ UNCHANGED <<urls, uniqUrls, isFinishedChannels, downloadPercentages, rlocked,
                   percentages, statusTableRowFormat, stdoutHeader, lastRow, stderr,
                   files, jobs>>

\* one select of the polling loop: receive if a value is buffered, else default
Poll ==
    /\ pcCtl = "poll"
    /\ IF isFinishedChannels[idx] # <<>>
       THEN /\ isFinishedChannels' = [isFinishedChannels EXCEPT ![idx] = Tail(@)]
            /\ finishedDownloads' = finishedDownloads + 1
       ELSE UNCHANGED <<isFinishedChannels, finishedDownloads>>
    /\ IF idx < NumJobs
       THEN idx' = idx + 1 /\ pcCtl' = "poll"
       ELSE idx' = 0 /\ pcCtl' = "snapshot"
    /\ UNCHANGED <<urls, uniqUrls, downloadPercentages, rlocked, percentages,
                   statusTableRowFormat, stdoutHeader, lastRow, stderr, files, jobs>>

\* GetDownloadPercentages: RLock() and the empty copy
RLock ==
    /\ pcCtl = "snapshot"
    /\ rlocked' = TRUE
    /\ percentages' = EmptyMap
    /\ pcCtl' = "copy"
    /\ UNCHANGED <<urls, uniqUrls, idx, finishedDownloads, isFinishedChannels,
                   downloadPercentages, statusTableRowFormat, stdoutHeader, lastRow,
                   stderr, files, jobs>>

\* GetDownloadPercentages: one iteration of the range loop (Go's map order
\* is unspecified)
CopyEntry ==
    /\ pcCtl = "copy"
    /\ \E url \in (DOMAIN downloadPercentages) \ (DOMAIN percentages) :
          percentages' = Put(percentages, url, downloadPercentages[url])
    /\ UNCHANGED <<urls, uniqUrls, pcCtl, idx, finishedDownloads, isFinishedChannels,
                   downloadPercentages, rlocked, statusTableRowFormat, stdoutHeader,
                   lastRow, stderr, files, jobs>>

\* a row whose columns are in the reverse of the job order
RowOfReversed(snapshot) ==
    [i \in 1..NumJobs |->
        IF uniqUrls[NumJobs + 1 - i] \in DOMAIN snapshot
        THEN snapshot[uniqUrls[NumJobs + 1 - i]] ELSE 0]

\* the arguments printStatusTableRow passes to Printf: the value of each
\* job's URL in the snapshot, 0 for a key the map does not hold
RowOf(snapshot) ==
    [i \in 1..NumJobs |->
        IF uniqUrls[i] \in DOMAIN snapshot THEN snapshot[uniqUrls[i]] ELSE 0]

\* the range loop is over: RUnlock(), then the rest of printStatusTableRow,
\* after which the copy is garbage.
\* percentagesSlice has len(percentages) elements, so storing the element
\* of a job beyond that length panics (index out of range)
PrintRow ==
    /\ pcCtl = "copy"
    /\ (DOMAIN downloadPercentages) \ (DOMAIN percentages) = {}
    /\ rlocked' = FALSE
    /\ IF Cardinality(DOMAIN percentages) < NumJobs
       THEN pcCtl' = "panic" /\ UNCHANGED lastRow
       ELSE pcCtl' = "loop" /\ lastRow' = RowOf(percentages)
    /\ percentages' = EmptyMap
    /\ UNCHANGED <<urls, uniqUrls, idx, finishedDownloads, isFinishedChannels,
                   downloadPercentages, statusTableRowFormat,
                   stdoutHeader, stderr, files, jobs>>

\* ------------------------------------------------------- worker (downloadUrl)
\* the goroutine of job j exists and the process has not died of a panic
Running(j) == j \in DOMAIN jobs /\ pcCtl # "panic"

\* a send that always uses the first job's channel
SendOnFirst(j, job, v) ==
    /\ Len(isFinishedChannels[1]) < 1
    /\ isFinishedChannels' = [isFinishedChannels EXCEPT ![1] = Append(@, v)]
    /\ jobs' = [jobs EXCEPT ![j] = [NewJob(job.url) EXCEPT
                                      !.pc = "done", !.sent = Append(job.sent, v)]]

\* finished <- v, then return: the send waits for room in the buffer, and
\* the goroutine's locals are gone once it has returned (sent remembers
\* what it sent)
SendAndReturn(j, job, v) ==
    /\ Len(isFinishedChannels[j]) < 1
    /\ isFinishedChannels' = [isFinishedChannels EXCEPT ![j] = Append(@, v)]
    /\ jobs' = [jobs EXCEPT ![j] = [NewJob(job.url) EXCEPT
                                      !.pc = "done", !.sent = Append(job.sent, v)]]

\* an error exit that prints and returns without signalling
FailNoSignal(j, job, what) ==
    /\ stderr' = Append(stderr, [what |-> what, url |-> job.url])
    /\ jobs' = [jobs EXCEPT ![j] = [NewJob(job.url) EXCEPT !.pc = "done"]]
    /\ UNCHANGED isFinishedChannels

\* the three error exits: ErrPrintf, finished <- false, return
Fail(j, job, what) ==
    /\ stderr' = Append(stderr, [what |-> what, url |-> job.url])
    /\ SendAndReturn(j, job, FALSE)

\* a first step that goes on to staging without publishing 0
RegisterSilent(j) ==
    /\ Running(j)
    /\ jobs[j].pc = "register"
    /\ jobs' = [jobs EXCEPT ![j].pc = "stage"]
    /\ UNCHANGED <<ctlVars, isFinishedChannels, downloadPercentages, rlocked, stderr, files>>

\* d.addDownloadPercentage(url, 0)
Register(j) ==
    /\ Running(j)
    /\ jobs[j].pc = "register"
    /\ addDownloadPercentage(jobs[j].url, 0)
    /\ jobs' = [jobs EXCEPT ![j].pc = "stage"]
    /\ UNCHANGED <<ctlVars, isFinishedChannels, rlocked, stderr, files>>

\* getUniqueFilename(getFilename(url)) and ioutil.TempFile, which may fail.
\* The temporary file's name (filename plus random digits) is taken to be
\* no path any job probes or renames to; its content is kept in tmpfile.
Stage(j) ==
    /\ Running(j)
    /\ jobs[j].pc = "stage"
    /\ LET job == [jobs[j] EXCEPT
                      !.filename = getUniqueFilename(getFilename(jobs[j].url), DOMAIN files)]
       IN  \/ /\ jobs' = [jobs EXCEPT ![j] = [job EXCEPT !.pc = "open"]]
              /\ UNCHANGED <<isFinishedChannels, stderr>>
           \/ Fail(j, job, "tmpfile")
    /\ UNCHANGED <<ctlVars, downloadPercentages, rlocked, files>>

\* d.webGetter.Get(url) answering r, and the set-up of the transfer loop
Open(j, r) ==
    /\ Running(j)
    /\ jobs[j].pc = "open"
    /\ IF r.err
       THEN /\ Fail(j, jobs[j], "download")
            /\ UNCHANGED downloadPercentages
       ELSE /\ IF r.contentLen = 0
               THEN addDownloadPercentage(jobs[j].url, 100)
               ELSE UNCHANGED downloadPercentages
            /\ jobs' = [jobs EXCEPT ![j] = [@ EXCEPT
                           !.pc = "transfer",
                           !.contentLen = r.contentLen,
                           !.body = [pos |-> 0, len |-> r.dataLen],
                           !.chunkLen = initialChunkSize,
                           !.totalCopied = 0,
                           !.lastCopied = 0]]
            /\ UNCHANGED <<isFinishedChannels, stderr>>
    /\ UNCHANGED <<ctlVars, rlocked, files>>

\* io.CopyN(tmpfile, body, chunkLen) finds nRead bytes to copy: the byte
\* counts it may return.  nRead when every write succeeds; fewer when a
\* write to the temporary file fails (none, or all but the last byte)
CopyCounts(nRead) == {nRead} \cup {w \in {0, nRead - 1} : 0 <= w /\ w < nRead}

\* a copy that takes its bytes from the start of the body every time
CopiedRunFromStart(job, n) == [src |-> job.url, off |-> 0, len |-> n]

\* the run io.CopyN appends to the temporary file: the next n bytes of the
\* body, which it reads on from where the last read stopped
CopiedRun(job, n) == [src |-> job.url, off |-> job.body.pos, len |-> n]

\* int(lastCopied / elapsed seconds) for an elapsed time above one second:
\* below lastCopied, and 0 when nothing was copied
Throughputs(lastCopied) == {r \in 0..MaxRate : r = 0 \/ r < lastCopied}

\* a percentage of what is still to be copied
PercentRemaining(totalCopied, contentLen) ==
    ((contentLen - totalCopied) * 100) \div contentLen

\* percentage published after totalCopied bytes
Percent(totalCopied, contentLen) == (totalCopied * 100) \div contentLen

\* one iteration of the transfer loop: CopyN returns (n, err) with err = nil
\* iff n = chunkLen, the counters and the percentage are updated, and the
\* chunk length is recomputed when more than a second has elapsed
Transfer(j) ==
    /\ Running(j)
    /\ jobs[j].pc = "transfer"
    /\ LET job == jobs[j]
           nRead == Min(job.chunkLen, job.body.len - job.body.pos)
       IN  \E n \in CopyCounts(nRead) :
             LET total == job.totalCopied + n
                 copied == job.lastCopied + n
                 next == [job EXCEPT
                            !.tmpfile = AppendRun(@, CopiedRun(job, n)),
                            !.body.pos = @ + nRead,
                            !.totalCopied = total,
                            !.lastCopied = copied,
                            !.writeFailed = @ \/ n < nRead,
                            !.pc = IF n = job.chunkLen THEN "transfer" ELSE "rename"]
             IN  /\ IF job.contentLen > 0
                    THEN addDownloadPercentage(job.url, Percent(total, job.contentLen))
                    ELSE UNCHANGED downloadPercentages
                 /\ \/ jobs' = [jobs EXCEPT ![j] = next]
                    \/ \E lastCopiedPerSecond \in Throughputs(copied) :
                          jobs' = [jobs EXCEPT ![j] = [next EXCEPT
                                      !.chunkLen = lastCopiedPerSecond \div chunksPerSecond,
                                      !.lastCopied = 0]]
    /\ UNCHANGED <<ctlVars, isFinishedChannels, rlocked, stderr, files>>

\* os.Rename(tmpfile.Name(), filename): replaces the destination, or fails
Rename(j) ==
    /\ Running(j)
    /\ jobs[j].pc = "rename"
    /\ \/ /\ files' = Put(files, jobs[j].filename, jobs[j].tmpfile)
          /\ jobs' = [jobs EXCEPT ![j].pc = "report"]
          /\ UNCHANGED <<isFinishedChannels, stderr>>
       \/ /\ Fail(j, jobs[j], "rename")
          /\ UNCHANGED files
    /\ UNCHANGED <<ctlVars, downloadPercentages, rlocked>>

\* a success test that accepts any transfer of at least contentLen bytes
CopiedAtLeast(job) == job.totalCopied >= job.contentLen

\* the value downloadUrl reports: totalCopied == contentLen
Succeeded(job) == job.totalCopied = job.contentLen

\* finished <- (totalCopied == contentLen)
Report(j) ==
    /\ Running(j)
    /\ jobs[j].pc = "report"
    /\ SendAndReturn(j, jobs[j], Succeeded(jobs[j]))
    /\ UNCHANGED <<ctlVars, downloadPercentages, rlocked, stderr, files>>

\* ------------------------------------------------------- specifications
\* the indices a job can have: at most one job per distinct URL
JobIds == 1..Cardinality(UrlSet)

Control == Start \/ Sleep \/ Return \/ Poll \/ RLock \/ CopyEntry \/ PrintRow

Worker(j, responses) ==
    \/ Register(j)
    \/ Stage(j)
    \/ \E r \in responses : Open(j, r)
    \/ Transfer(j)
    \/ Rename(j)
    \/ Report(j)

\* Download of any URL list against small transports
Next == Control \/ \E j \in JobIds : Worker(j, SmallResponses)

Spec == Init /\ [][Next]_vars

\* Download of one URL against transports large enough for several chunks
InitTransfer == InitWith({<<u1>>}, InitialDirs)

NextTransfer == Control \/ \E j \in JobIds : Worker(j, LargeResponses)

SpecTransfer == InitTransfer /\ [][NextTransfer]_vars

\* Download of one URL with the control thread and the worker scheduled
\* fairly: the worker takes a step if it can take one again and again (a
\* writer is not starved by the reader of the RWMutex)
SpecTransferFair ==
    /\ InitTransfer
    /\ [][NextTransfer]_vars
    /\ WF_vars(Control)
    /\ SF_vars(Worker(1, LargeResponses))

\* Download of two distinct URLs with the control thread scheduled fairly:
\* whenever it can take a step it eventually does (whether the workers
\* finish is a hypothesis of the claims, not of the specification)
InitFair == InitWith({<<u1, u2>>}, {EmptyDir})

\* its transports: a Get that fails, an empty body of unknown length, a
\* body cut short and a body delivered in full
FairResponses ==
    {Response(TRUE, 0, 0), Response(FALSE, 0, 0),
     Response(FALSE, 1, 0), Response(FALSE, 1, 1)}

NextFair == Control \/ \E j \in JobIds : Worker(j, FairResponses)

SpecFair == InitFair /\ [][NextFair]_vars /\ WF_vars(Control)

\* Download of the lists of names: every shape of URL in an empty
\* directory, one name against directories where it is taken, and the two
\* names of TestGetUniqueFilename against its directory
InitNames ==
    \/ InitWith(NameLists, {EmptyDir})
    \/ InitWith({<<u1>>}, NameDirs)
    \/ InitWith({<<urlE>>, <<urlE_>>, <<urlE, urlE_>>}, {TestDir})

SpecNames == InitNames /\ [][NextFair]_vars

\* ------------------------------------------------------------------ claims
\* the job of index j has written an error line of kind what
Failed(j, what) ==
    \E i \in 1..Len(stderr) : stderr[i] = [what |-> what, url |-> jobs[j].url]

\* C1: every run of downloadUrl sends exactly one value on its completion
\* channel: a goroutine that has returned has sent one value, one that is
\* still running has sent none, and the channel never holds more values
\* than were sent.
C1_ExactlyOneSignal ==
    \A j \in DOMAIN jobs :
        /\ Len(jobs[j].sent) = (IF jobs[j].pc = "done" THEN 1 ELSE 0)
        /\ Len(isFinishedChannels[j]) <= Len(jobs[j].sent)

\* a job has returned after its rename failed, and has signalled
C1_Witness ==
    \E j \in DOMAIN jobs :
        /\ jobs[j].pc = "done"
        /\ Failed(j, "rename")
        /\ jobs[j].sent = <<FALSE>>

\* the step of job j in which it sends its signal and returns
Signals(j) == jobs[j].pc # "done" /\ jobs'[j].pc = "done"

\* the transport declared a length L > 0 and the body delivers exactly L bytes
ExactTransport(job) == job.contentLen > 0 /\ job.body.len = job.contentLen

\* in directory dir, the destination of job holds the job's source bytes
HoldsSource(dir, job) ==
    /\ job.filename \in DOMAIN dir
    /\ Bytes(dir[job.filename]) = SourceBytes(job.url, job.contentLen)

\* C2 as claimed: for a transport that declares L > 0 and delivers exactly L
\* bytes, whenever downloadUrl signals, the signal is true and the
\* destination file holds exactly the source bytes.
C2_AsClaimed ==
    [][\A j \in DOMAIN jobs :
          (Signals(j) /\ ExactTransport(jobs[j]))
              => (jobs'[j].sent = <<TRUE>> /\ HoldsSource(files', jobs[j]))]_vars

\* C2 amended: for a transport that declares L > 0 and delivers exactly L
\* bytes, if no write to the temporary file fails, then a rename that
\* succeeds leaves exactly the source bytes, in order, at the destination,
\* whatever the chunk sizes were; the signal that follows is true; and when
\* the job is the only one, the destination still holds them at the signal.
C2_RoundTrip ==
    [][\A j \in DOMAIN jobs :
          (ExactTransport(jobs[j]) /\ ~jobs[j].writeFailed) =>
              /\ (jobs[j].pc = "rename" /\ jobs'[j].pc = "report")
                     => HoldsSource(files', jobs[j])
              /\ (jobs[j].pc = "report" /\ Signals(j))
                     => jobs'[j].sent = <<TRUE>>
              /\ (jobs[j].pc = "report" /\ Signals(j) /\ NumJobs = 1)
                     => HoldsSource(files, jobs[j])]_vars

\* a download of initialChunkSize + MaxExtra bytes that went through a first
\* chunk of initialChunkSize bytes and then one-byte chunks is renamed and
\* holds the source
C2_Witness ==
    \E j \in DOMAIN jobs :
        /\ jobs[j].pc = "report"
        /\ ExactTransport(jobs[j])
        /\ jobs[j].contentLen = initialChunkSize + MaxExtra
        /\ jobs[j].chunkLen = 1
        /\ jobs[j].lastCopied = MaxExtra
        /\ HoldsSource(files, jobs[j])

\* the stream of job has ended: its transfer loop is over
StreamEnded(job) == job.pc \in {"rename", "report"}

\* C3 as claimed: for a declared content length > 0, the signal is true if
\* and only if totalCopied = contentLen when the stream ends.
C3_AsClaimed ==
    [][\A j \in DOMAIN jobs :
          (Signals(j) /\ StreamEnded(jobs[j]) /\ jobs[j].contentLen > 0)
              => (jobs'[j].sent = <<TRUE>>
                      <=> jobs[j].totalCopied = jobs[j].contentLen)]_vars

\* C3 amended: for a declared content length > 0, the signal sent after the
\* stream has ended is true if and only if totalCopied = contentLen and the
\* rename did not fail.
C3_SuccessIff ==
    [][\A j \in DOMAIN jobs :
          (Signals(j) /\ StreamEnded(jobs[j]) /\ jobs[j].contentLen > 0)
              => (jobs'[j].sent = <<TRUE>>
                      <=> /\ jobs[j].totalCopied = jobs[j].contentLen
                          /\ stderr' = stderr)]_vars

\* a job has signalled success after copying a non-empty stream in full
\* (its percentage is 100 and its destination holds bytes of its source)
C3_Witness ==
    \E j \in DOMAIN jobs :
        /\ jobs[j].pc = "done"
        /\ jobs[j].sent = <<TRUE>>
        /\ jobs[j].url \in DOMAIN downloadPercentages
        /\ downloadPercentages[jobs[j].url] = 100
        /\ \E p \in DOMAIN files :
              /\ files[p] # <<>>
              /\ files[p][1].src = jobs[j].url

\* C4 as claimed: for a declared content length of 0 the signal is true once
\* the stream has been drained (and the file renamed), however many bytes
\* the stream delivered.
C4_AsClaimed ==
    [][\A j \in DOMAIN jobs :
          (Signals(j) /\ jobs[j].pc = "report" /\ jobs[j].contentLen = 0)
              => jobs'[j].sent = <<TRUE>>]_vars

\* C9 as claimed: every value stored in the registry is in 0..100.
C9_AsClaimed ==
    \A url \in DOMAIN downloadPercentages :
        downloadPercentages[url] \in 0..100

\* the jobs whose signal the control loop has received
Received == {j \in DOMAIN jobs : jobs[j].sent # <<>> /\ isFinishedChannels[j] = <<>>}

\* every job's URL has an entry in the registry
AllRegistered == \A i \in 1..NumJobs : uniqUrls[i] \in DOMAIN downloadPercentages

\* C6: the finished-count is the number of jobs whose signal has been
\* received (each counted once), so it never exceeds the number of jobs;
\* Download has returned only if every job has signalled and been counted;
\* and the loop is left for the return exactly when the count equals the
\* number of jobs.
C6_ReturnsAfterAllSignals ==
    /\ [](/\ finishedDownloads = Cardinality(Received)
          /\ finishedDownloads <= NumJobs
          /\ pcCtl = "returned" =>
                /\ finishedDownloads = NumJobs
                /\ \A j \in DOMAIN jobs : jobs[j].pc = "done")
    /\ [][(pcCtl = "loop" /\ pcCtl' # "loop")
             => (pcCtl' = "returned" <=> finishedDownloads = NumJobs)]_vars

\* Download has returned after two jobs signalled, one of them a failure
C6_Witness ==
    /\ pcCtl = "returned"
    /\ NumJobs = 2
    /\ finishedDownloads = 2
    /\ jobs[1].sent = <<FALSE>>
    /\ jobs[2].sent = <<TRUE>>

\* C8 as claimed: whenever printStatusTableRow runs, the registry holds an
\* entry for every job's URL, so the row is built (no index out of range).
C8_AsClaimed ==
    /\ pcCtl \in {"snapshot", "copy"} => AllRegistered
    /\ pcCtl # "panic"

\* job j calls addDownloadPercentage in this step
Writes(j) ==
    \/ jobs[j].pc = "register" /\ jobs'[j].pc = "stage"
    \/ jobs[j].pc = "open" /\ jobs'[j].pc = "transfer" /\ jobs'[j].contentLen = 0
    \/ jobs[j].pc = "transfer" /\ jobs[j].contentLen > 0 /\ jobs'[j] # jobs[j]

\* the percentage it passes
Written(j) ==
    IF jobs[j].pc = "register" THEN 0
    ELSE IF jobs[j].pc = "open" THEN 100
    ELSE Percent(jobs'[j].totalCopied, jobs[j].contentLen)

\* C10: a set by one worker stores its value under its own URL and changes
\* no other entry, and an entry changes only by its own worker's set (so
\* each entry is the last percentage its job wrote); the copy that
\* GetDownloadPercentages builds agrees with the registry as long as the
\* read lock is held, and the row printed is the registry's content at the
\* instant of the unlock.
C10_RegistryAtomic ==
    /\ [][\A j \in DOMAIN jobs :
             LET url == jobs[j].url
             IN  IF Writes(j)
                 THEN /\ url \in DOMAIN downloadPercentages'
                      /\ downloadPercentages'[url] = Written(j)
                 ELSE /\ url \in DOMAIN downloadPercentages'
                             <=> url \in DOMAIN downloadPercentages
                      /\ url \in DOMAIN downloadPercentages
                             => downloadPercentages'[url] = downloadPercentages[url]]_vars
    /\ [](/\ DOMAIN downloadPercentages \subseteq Range(uniqUrls)
          /\ pcCtl = "copy" =>
                \A url \in DOMAIN percentages :
                    /\ url \in DOMAIN downloadPercentages
                    /\ percentages[url] = downloadPercentages[url])
    /\ [][(pcCtl = "copy" /\ pcCtl' = "loop")
             => lastRow' = RowOf(downloadPercentages)]_vars

\* both workers have finished with different percentages and the control
\* thread holds a complete copy of the registry
C10_Witness ==
    /\ pcCtl = "copy"
    /\ NumJobs = 2
    /\ \A j \in DOMAIN jobs : jobs[j].pc = "done"
    /\ DOMAIN percentages = Range(uniqUrls)
    /\ percentages[uniqUrls[1]] = 100
    /\ percentages[uniqUrls[2]] = 0

\* the error line a job that fails at its current step writes
ErrorLine(job) ==
    [what |-> IF job.pc = "stage" THEN "tmpfile"
              ELSE IF job.pc = "open" THEN "download" ELSE "rename",
     url |-> job.url]

\* every launched job has returned
AllDone == pcCtl # "start" /\ \A j \in DOMAIN jobs : jobs[j].pc = "done"

\* C5: a job that fails at staging, at Get or at the rename writes one line
\* to the error sink and signals false; a step of one job changes neither
\* another job's locals, channel or registry entry nor the control thread,
\* so a sibling's steps, progress values and signal are the same whether or
\* not the other job failed; no job is ever kept from its next step by
\* another job (only by the read lock, or by the death of the process);
\* and once all jobs have signalled, Download returns.
C5_FailureIsLocal ==
    /\ [][\A j \in DOMAIN jobs :
             /\ (Signals(j) /\ jobs[j].pc \in {"stage", "open", "rename"})
                    => /\ stderr' = Append(stderr, ErrorLine(jobs[j]))
                       /\ jobs'[j].sent = <<FALSE>>
             /\ (Signals(j) /\ jobs[j].pc = "report")
                    => /\ stderr' = stderr
                       /\ jobs'[j].sent = <<Succeeded(jobs[j])>>
             /\ jobs'[j] # jobs[j] =>
                    /\ UNCHANGED ctlVars
                    /\ \A k \in DOMAIN jobs \ {j} :
                          /\ jobs'[k] = jobs[k]
                          /\ isFinishedChannels'[k] = isFinishedChannels[k]
                          /\ jobs[k].url \in DOMAIN downloadPercentages'
                                 <=> jobs[k].url \in DOMAIN downloadPercentages
                          /\ jobs[k].url \in DOMAIN downloadPercentages
                                 => downloadPercentages'[jobs[k].url]
                                        = downloadPercentages[jobs[k].url]]_vars
    /\ [](\A k \in DOMAIN jobs :
             (jobs[k].pc # "done" /\ pcCtl # "panic" /\ ~rlocked)
                 => ENABLED Worker(k, FairResponses))
    /\ (AllDone ~> pcCtl = "returned")

\* Download has returned although the first job failed to create its
\* temporary file; its sibling ran to a successful signal
C5_Witness ==
    /\ pcCtl = "returned"
    /\ NumJobs = 2
    /\ Failed(1, "tmpfile")
    /\ jobs[1].sent = <<FALSE>>
    /\ jobs[2].sent = <<TRUE>>
    /\ downloadPercentages[jobs[2].url] = 100

\* C7 as claimed: if every job eventually signals, Download eventually
\* returns; a step that receives a signal is followed by a printed row
\* before the loop condition is tested again, and Download returns only from
\* that test; a poll never waits for its channel; every tick ends with one
\* row printed.
C7_AsClaimed ==
    /\ (AllDone ~> pcCtl = "returned")
    /\ [][/\ finishedDownloads' # finishedDownloads => pcCtl' \in {"poll", "snapshot"}
          /\ (pcCtl \in {"poll", "snapshot"} /\ pcCtl' # pcCtl)
                 => pcCtl' \in {"snapshot", "copy"}
          /\ (pcCtl' = "returned" /\ pcCtl # "returned") => pcCtl = "loop"]_vars
    /\ [](pcCtl = "poll" => ENABLED Poll)
    /\ [][(pcCtl = "copy" /\ pcCtl' # "copy")
             => (pcCtl' = "loop" /\ lastRow' = RowOf(percentages))]_vars


\* the index of the first occurrence of u in the list us
FirstIndex(us, u) ==
    CHOOSE i \in 1..Len(us) : us[i] = u /\ \A k \in 1..(i - 1) : us[k] # u

\* C11: once Download has built its job list, the list holds each distinct
\* URL of the input exactly once, in the order of first occurrence; there is
\* one worker and one channel per entry of the list, the worker of entry i
\* downloading the URL of entry i; and a worker's signal goes into its own
\* channel and no other.
C11_OneJobPerDistinctUrl ==
    /\ [](IF pcCtl = "start"
          THEN jobs = <<>> /\ isFinishedChannels = <<>>
          ELSE /\ Range(uniqUrls) = Range(urls)
               /\ \A i, k \in 1..Len(uniqUrls) :
                     i < k => FirstIndex(urls, uniqUrls[i]) < FirstIndex(urls, uniqUrls[k])
               /\ Len(jobs) = Len(uniqUrls)
               /\ Len(isFinishedChannels) = Len(uniqUrls)
               /\ \A i \in 1..Len(uniqUrls) : jobs[i].url = uniqUrls[i])
    /\ [][\A j \in DOMAIN jobs :
             Signals(j) =>
                 isFinishedChannels' =
                     [isFinishedChannels EXCEPT ![j] = Append(@, jobs'[j].sent[1])]]_vars

\* a list that repeats its first URL after a second one has given two jobs,
\* in the order of first occurrence, and both have signalled
C11_Witness ==
    /\ urls = <<u2, u1, u2>>
    /\ uniqUrls = <<u2, u1>>
    /\ \A j \in DOMAIN jobs : jobs[j].pc = "done" /\ Len(jobs[j].sent) = 1


\* the name f.n
Numbered(f, n) == f \o <<".">> \o Itoa(n)

\* name is what the claim says getUniqueFilename(f) returns when the paths
\* in existing exist: f itself if f is free, else f.N for the smallest
\* N >= 1 with f.N free
IsUniqueFor(name, f, existing) ==
    IF f \notin existing THEN name = f
    ELSE \E N \in 1..(Cardinality(existing) + 1) :
            /\ name = Numbered(f, N)
            /\ name \notin existing
            /\ \A k \in 1..(N - 1) : Numbered(f, k) \in existing

\* C12: the name getUniqueFilename returns, both for the header and for a
\* job's destination, is the filename itself when no such path exists at
\* the time of the probe, and otherwise filename.N for the smallest N >= 1
\* such that filename.N does not exist; with existing, existing_ and
\* existing_.1 present it is existing.1 and existing_.2, and with x and
\* x.1 to x.9 present it is x.10.
C12_SmallestFreePostfix ==
    /\ [][(pcCtl = "start" /\ pcCtl' # "start") =>
             /\ \A i \in 1..Len(uniqUrls') :
                   IsUniqueFor(stdoutHeader'[i], getFilename(uniqUrls'[i]), DOMAIN files)
             /\ (urls = <<urlE, urlE_>> /\ files = TestDir)
                    => stdoutHeader' = << <<"e", ".", "1">>, <<"e", "_", ".", "2">> >>
             /\ (urls = <<u1>> /\ Cardinality(DOMAIN files) = 10)
                    => stdoutHeader' = << <<"x", ".", "1", "0">> >>
             /\ (urls = <<u1>> /\ DOMAIN files = {<<"x", ".", "1">>})
                    => stdoutHeader' = << <<"x">> >>]_vars
    /\ [][\A j \in DOMAIN jobs :
             (jobs[j].pc = "stage" /\ jobs'[j].pc = "open") =>
                 IsUniqueFor(jobs'[j].filename, getFilename(jobs[j].url), DOMAIN files)]_vars

\* with x and x.1 to x.9 in the directory, a job for http://a/x has been
\* renamed to x.10, next to the ten files that were there
C12_Witness ==
    \E j \in DOMAIN jobs :
        /\ jobs[j].pc = "report"
        /\ jobs[j].filename = <<"x", ".", "1", "0">>
        /\ stdoutHeader[j] = jobs[j].filename
        /\ jobs[j].filename \in DOMAIN files
        /\ Cardinality(DOMAIN files) = 11


\* the positions of a "://" that follows a word character and is followed
\* by a character other than "/" (a scheme and the start of a host)
SchemeAt(url) ==
    {p \in 2..(Len(url) - 3) :
        /\ url[p - 1] \in AsciiLetters \cup Digits \cup {"_"}
        /\ SubSeq(url, p, p + 2) = <<":", "/", "/">>
        /\ url[p + 3] # "/"}

\* seg with every character that is not a letter, hyphen, dot or decimal
\* digit replaced by "_"
Replaced(seg) ==
    [i \in 1..Len(seg) |->
        IF seg[i] \in Letters \/ seg[i] = "-" \/ seg[i] = "." \/ seg[i] \in Digits
        THEN seg[i] ELSE "_"]

\* the name the claim gives for url
WantedName(url) ==
    IF SchemeAt(url) = {} THEN defaultFilename
    ELSE LET p == CHOOSE q \in SchemeAt(url) : \A r \in SchemeAt(url) : q <= r
             slashes == {q \in (p + 3)..Len(url) : url[q] = "/"}
         IN  IF slashes = {} THEN defaultFilename
             ELSE LET last == CHOOSE q \in slashes : \A r \in slashes : r <= q
                      seg == SubSeq(url, last + 1, Len(url))
                  IN  IF seg \in {<<>>, <<".">>, <<".", ".">>} THEN defaultFilename
                      ELSE Replaced(seg)

\* the names wanted for the URLs of TestGetFilename and the further shapes
WantedTable ==
    {<<urlNoScheme, defaultFilename>>,
     <<urlNoPath, defaultFilename>>,
     <<urlSlash, defaultFilename>>,
     <<urlQuery, <<"_", "t", "_", "_", "g", "_">> >>,
     <<urlLetter, <<"é">> >>,
     <<urlDotsThenName, <<"t", ".", "m">> >>,
     <<urlDotsAtEnd, defaultFilename>>,
     <<urlDot, defaultFilename>>,
     <<urlThreeDots, <<".", ".", ".">> >>,
     <<urlNoHost, defaultFilename>>,
     <<urlLetterScheme, defaultFilename>>,
     <<urlPrefixed, <<"x">> >>,
     <<urlNested, <<"y">> >>,
     <<urlHyphen, <<"x", "-", "1">> >>,
     <<urlBlank, <<"a", "_", "b">> >>,
     <<urlTrailing, defaultFilename>>}

\* C13: getFilename(url) is "index.html" when url has no scheme://host
\* match, no path segment, or a last segment that is empty, "." or "..";
\* otherwise it is the last "/"-delimited segment, of the same length, with
\* every character that is not a letter, hyphen, dot or decimal digit
\* replaced by "_" (dot segments are not resolved).  Checked on the name in
\* the header printed into an empty directory, on the cases of
\* TestGetFilename, and on the name each job stages.
C13_FilenameOfUrl ==
    /\ [][(pcCtl = "start" /\ pcCtl' # "start" /\ files = EmptyDir) =>
             \A i \in 1..Len(uniqUrls') :
                 /\ stdoutHeader'[i] = WantedName(uniqUrls'[i])
                 /\ \A w \in WantedTable :
                       w[1] = uniqUrls'[i] => stdoutHeader'[i] = w[2]]_vars
    /\ [][\A j \in DOMAIN jobs :
             (jobs[j].pc = "stage" /\ jobs'[j].pc = "open") =>
                 IsUniqueFor(jobs'[j].filename, WantedName(jobs[j].url), DOMAIN files)]_vars

\* the download of http://a/?t=%g* has been renamed to _t__g_
C13_Witness ==
    /\ uniqUrls = <<urlQuery>>
    /\ stdoutHeader = << <<"_", "t", "_", "_", "g", "_">> >>
    /\ jobs[1].pc = "report"
    /\ DOMAIN files = {stdoutHeader[1]}


Max(a, b) == IF a > b THEN a ELSE b

\* C14: for a job list with filenames f_1..f_n, initializeStatusTable
\* builds a row format of n integer fields in job order, field i of width
\* max(3, len(f_i) - 1) followed by "%" and a space, and prints one header
\* line (only then) in which each filename is padded to width 4 at least;
\* so in every column the header cell and the row cell are max(4, len(f_i))
\* wide before their space, for every percentage in 0..100.  For the list
\* of TestInitializeStatusTable the widths are 3 and 9.
C14_ColumnsAlign ==
    /\ [][(pcCtl = "start" /\ pcCtl' # "start") =>
             /\ Len(statusTableRowFormat') = Len(uniqUrls')
             /\ Len(stdoutHeader') = Len(uniqUrls')
             /\ \A i \in 1..Len(uniqUrls') :
                   LET f == stdoutHeader'[i]
                       width == statusTableRowFormat'[i]
                       cell == HeaderCell(f)
                   IN  /\ width = Max(3, Len(f) - 1)
                       /\ Len(cell) = Max(4, Len(f)) + 1
                       /\ SubSeq(cell, Len(cell) - Len(f), Len(cell) - 1) = f
                       /\ \A p \in 0..100 :
                             LET row == RowCell(width, p)
                             IN  /\ Len(row) = Len(cell)
                                 /\ row[Len(row) - 1] = "%"
                                 /\ row[Len(row)] = " "
             /\ uniqUrls' = <<urlZero, urlOutput>> =>
                   /\ statusTableRowFormat' = <<3, 9>>
                   /\ HeaderCell(stdoutHeader'[1]) = <<" ", " ", " ", "0", " ">>
                   /\ RowCell(statusTableRowFormat'[2], 100)
                          = <<" ", " ", " ", " ", " ", " ", "1", "0", "0", "%", " ">>]_vars
    /\ [][stdoutHeader' # stdoutHeader \/ statusTableRowFormat' # statusTableRowFormat
             => pcCtl = "start"]_vars

\* the table of TestInitializeStatusTable's first two URLs has printed a
\* row with both columns at 100
C14_Witness ==
    /\ uniqUrls = <<urlZero, urlOutput>>
    /\ statusTableRowFormat = <<3, 9>>
    /\ lastRow = <<100, 100>>


\* the steps a job may take from one stage of downloadUrl to another
StageOrder ==
    {<<"register", "stage">>, <<"stage", "open">>, <<"open", "transfer">>,
     <<"transfer", "rename">>, <<"rename", "report">>,
     <<"stage", "done">>, <<"open", "done">>, <<"rename", "done">>,
     <<"report", "done">>}

\* the registry entry of url is the same before and after the step
SameEntry(url) ==
    /\ url \in DOMAIN downloadPercentages' <=> url \in DOMAIN downloadPercentages
    /\ url \in DOMAIN downloadPercentages
           => downloadPercentages'[url] = downloadPercentages[url]

\* C15: a job goes through Register, Stage, Open stream, Transfer, Finalize
\* and Report in that order and never back (the transfer loop stays in
\* Transfer); its first registry write is the 0 of Register, made while it
\* has staged nothing and opened no stream; a failure in Stage or in Open
\* stream is followed directly by the false signal, with no rename; the
\* directory changes only in Finalize; and the signal is the job's last
\* action: the step that sends it writes nothing to the registry, and the
\* job does nothing afterwards.
C15_LinearStages ==
    [][\A j \in DOMAIN jobs :
          LET from == jobs[j].pc
              to == jobs'[j].pc
          IN  /\ from # to => <<from, to>> \in StageOrder
              /\ from = "register" =>
                    /\ jobs[j].url \notin DOMAIN downloadPercentages
                    /\ jobs[j].filename = <<>> /\ jobs[j].tmpfile = <<>>
                    /\ jobs[j].body.len = 0 /\ jobs[j].sent = <<>>
              /\ (from = "register" /\ to = "stage") =>
                    /\ jobs[j].url \in DOMAIN downloadPercentages'
                    /\ downloadPercentages'[jobs[j].url] = 0
              /\ from \in {"stage", "open"} =>
                    /\ jobs[j].url \in DOMAIN downloadPercentages
                    /\ files' = files
              /\ (from \in {"stage", "open"} /\ to = "done") =>
                    /\ jobs'[j].sent = <<FALSE>>
                    /\ stderr' = Append(stderr, ErrorLine(jobs[j]))
              /\ (from = "transfer" /\ NumJobs = 1) => files' = files
              /\ Signals(j) => SameEntry(jobs[j].url)
              /\ from = "done" =>
                    /\ jobs'[j] = jobs[j]
                    /\ SameEntry(jobs[j].url)]_vars

\* a job that went through a first chunk of initialChunkSize bytes and more
\* iterations of the loop is in Report with its file renamed and 100 in
\* the registry
C15_Witness ==
    \E j \in DOMAIN jobs :
        /\ jobs[j].pc = "report"
        /\ jobs[j].totalCopied = initialChunkSize + MaxExtra
        /\ jobs[j].chunkLen < initialChunkSize
        /\ jobs[j].filename \in DOMAIN files
        /\ downloadPercentages[jobs[j].url] = 100


\* C16 as claimed: a job that is in its transfer loop (on a stream of
\* finitely many bytes) eventually leaves it for Finalize, unless the
\* process has died.
C16_AsClaimed ==
    \A j \in JobIds :
        (j \in DOMAIN jobs /\ jobs[j].pc = "transfer")
            ~> (pcCtl = "panic" \/ (j \in DOMAIN jobs /\ jobs[j].pc # "transfer"))


\* C20 as claimed: the chunk length a job uses in its transfer loop is at
\* least 1 byte.
C20_AsClaimed ==
    \A j \in DOMAIN jobs : jobs[j].pc = "transfer" => jobs[j].chunkLen >= 1


\* C17 as claimed: a rename never replaces a file that is already in the
\* directory (in a directory that was empty at the start, a file a sibling
\* has finalized), and the path a job renames to is the filename its
\* column of the header shows.
C17_AsClaimed ==
    [][\A j \in DOMAIN jobs :
          (jobs[j].pc = "rename" /\ jobs'[j].pc = "report") =>
              /\ jobs[j].filename \notin DOMAIN files
              /\ jobs[j].filename = stdoutHeader[j]]_vars

\* C18: when Download has returned, the last row printed shows for every
\* job the value its registry entry ends with (the last percentage the job
\* wrote), and 100 for every job that signalled true.
C18_LastRowIsFinal ==
    pcCtl = "returned" =>
        /\ Len(lastRow) = NumJobs
        /\ \A i \in 1..NumJobs :
              /\ uniqUrls[i] \in DOMAIN downloadPercentages
              /\ lastRow[i] = downloadPercentages[uniqUrls[i]]
              /\ jobs[i].pc = "done"
              /\ jobs[i].sent = <<TRUE>> => lastRow[i] = 100

\* Download has returned after a failed first job and a successful second
\* one, and the last row shows 0 and 100
C18_Witness ==
    /\ pcCtl = "returned"
    /\ NumJobs = 2
    /\ jobs[1].sent = <<FALSE>>
    /\ jobs[2].sent = <<TRUE>>
    /\ lastRow = <<0, 100>>

\* C19: the first value stored for a URL is 0 and a stored value is never
\* replaced by a smaller one or removed; the values of a column over
\* successive printed rows never decrease; and a job with content length 0
\* has 100 stored from the moment its stream is open.
C19_NeverDecreases ==
    /\ [][pcCtl # "start" =>
             /\ \A url \in DOMAIN downloadPercentages :
                   /\ url \in DOMAIN downloadPercentages'
                   /\ downloadPercentages'[url] >= downloadPercentages[url]
             /\ \A url \in DOMAIN downloadPercentages' :
                   url \notin DOMAIN downloadPercentages
                       => downloadPercentages'[url] = 0
             /\ (lastRow # <<>> /\ lastRow' # lastRow) =>
                   \A i \in 1..NumJobs : lastRow'[i] >= lastRow[i]]_vars
    /\ [](\A j \in DOMAIN jobs :
             (jobs[j].pc \in {"transfer", "rename", "report"} /\ jobs[j].contentLen = 0)
                 => downloadPercentages[jobs[j].url] = 100)

\* a row showing 99 has been printed after the first chunk of a download
\* of initialChunkSize + MaxExtra bytes, and the registry now holds 100
C19_Witness ==
    /\ lastRow = <<99>>
    /\ \E j \in DOMAIN jobs :
          /\ jobs[j].contentLen = initialChunkSize + MaxExtra
          /\ downloadPercentages[jobs[j].url] = 100

====
